---- MODULE Spec2Model ----
(***************************************************************************)
(* Model of the GIC-400 interrupt driver (src/src/irq.rs): the handler     *)
(* registry behind its reader/writer lock, Irq::register, Irq::trigger and *)
(* the per-core Irq::dispatch loop, together with the memory-mapped        *)
(* registers these operations read and write; the construction of the      *)
(* driver by Irq::new behind its Lazy cell; and the handler of the         *)
(* touchscreen driver, Touch::poll (src/src/touch.rs).                     *)
(***************************************************************************)
EXTENDS Integers, Sequences, FiniteSets, TLC

(* ------------------------------------------------------------------ *)
(* Bounds of the model                                                 *)
(* ------------------------------------------------------------------ *)

\* Total number of register/trigger calls made by all cores together.
MaxCalls == 3

\* The same total where the construction of IRQ is followed step by step.
BootCalls == 2

\* The same total where the cores are scheduled fairly.
FairCalls == 2

\* Number of buffers the video core publishes.
MaxPublish == 2

(* ------------------------------------------------------------------ *)
(* Program constants                                                   *)
(* ------------------------------------------------------------------ *)

SPI_COUNT == 192
IRQ_COUNT == SPI_COUNT + 32
\* Number of 32-bit words of GICD_ISENABLER: IRQ_COUNT >> 5.
ISENABLER_LEN == IRQ_COUNT \div 32
\* Strict upper bound of the ids accepted by trigger.
SGI_COUNT == 16
\* 0xFF8000: target list of all cores.
SGI_ALL_CORES == 16744448
\* 0x3FF: mask of the interrupt id in GICC_IAR.
IAR_ID_MASK == 1023
\* 0x1F: mask of the bit position inside a set-enable word.
WORD_BIT_MASK == 31
\* 5: shift turning an id into a set-enable word index.
WORD_SHIFT == 5
\* Width of the registers.
U32_BITS == 32
\* Number of the ids whose target bytes Irq::new skips.
PRIVATE_COUNT == 32
\* 4: shift turning an id into a config word index.
CFG_SHIFT == 4
\* 0xFF: the priority mask that masks the lowest priority only.
PRIORITY_MASK == 255
\* 0x7F: the priority given to every id.
PRIORITY == 127
\* 0xFF: the target byte naming all cores.
TARGET_ALL == 255
\* Number of 32-bit words of GICD_ICFGR: IRQ_COUNT >> 4.
ICFGR_LEN == IRQ_COUNT \div 16

\* Constants of the touchscreen driver.
TOUCH_IRQ == 142
MAX_POINTS == 10
INVALID_POINTS == 99
WIDTH == 800
HEIGHT == 480

(* ------------------------------------------------------------------ *)
(* Inputs                                                              *)
(* ------------------------------------------------------------------ *)

Cores == {1, 2}
\* Handler functions (fn()) that callers register.
Handlers == {"h1", "h2"}
NoHandler == "none"
\* Handler functions whose body calls IRQ.register.
Registrars == {"hr"}
\* Ids and handlers registered, triggered and raw values acknowledged where
\* handlers register: an SGI and the touch IRQ, and the spurious id.
NestedIds == {3, 142}
NestedHandlers == {"h1", "hr"}
NestedAcks == {1027, 142, 1023}
\* The same where the cores are scheduled fairly: the touch IRQ, and the
\* spurious id.
FairIds == {142}
FairAcks == {142, 1023}
\* Ids passed to register: an SGI, the touch IRQ, the last valid id and the
\* first invalid one.
RegIds == {3, 142, 223, 224}
\* Ids passed to trigger: SGIs, the first invalid one, and an id valid for
\* register only.
TrigIds == {3, 15, 16, 142}
\* Raw values the acknowledge register returns: SGI 3 sent by core 1
\* (sender in bits 10..12), ids 142 and 223, the first out-of-range id, and
\* the spurious id 1023.
AckValues == {1027, 142, 223, 224, 1023}

(* ------------------------------------------------------------------ *)
(* Integer operations of the code                                      *)
(* ------------------------------------------------------------------ *)

\* The powers of two that fit.
Powers ==
    <<1, 2, 4, 8, 16, 32, 64, 128, 256, 512, 1024, 2048, 4096, 8192, 16384,
      32768, 65536, 131072, 262144, 524288, 1048576, 2097152, 4194304,
      8388608, 16777216, 33554432, 67108864, 134217728, 268435456,
      536870912, 1073741824>>

\* 2^n
Pow2(n) == Powers[n + 1]

\* A u32 is held as the set of the positions of its one bits, so that bit
\* 31 is as representable as the others.
Word(n) == {i \in 0..(U32_BITS - 2) : (n \div Pow2(i)) % 2 = 1}

\* The number a word stands for (words below 2^31 only).
RECURSIVE Num(_)
Num(w) ==
    IF w = {} THEN 0
    ELSE LET b == CHOOSE x \in w : TRUE IN Pow2(b) + Num(w \ {b})

\* The constants of the code as words.
OneWord == Word(1)
BitMaskWord == Word(WORD_BIT_MASK)
IdMaskWord == Word(IAR_ID_MASK)
AllCoresWord == Word(SGI_ALL_CORES)

\* a & b
BitAnd(a, b) == a \cap b

\* a | b
BitOr(a, b) == a \cup b

\* a << n on u32: the bits shifted past bit 31 are lost.
Shl(a, n) == {i + n : i \in a} \cap (0..(U32_BITS - 1))

\* a >> n on usize.
Shr(a, n) == a \div Pow2(n)

(* ------------------------------------------------------------------ *)
(* State                                                               *)
(* ------------------------------------------------------------------ *)

VARIABLES
    handlers,   \* Irq.handlers: the BTreeMap from id to the Vec of handlers
    rw,         \* state of the RwLock around it: the cores holding its guards
    isenabler,  \* enable state of the lines, one word per 32 ids
    enables,    \* number of writes made of each value to each set-enable word
    pc,         \* position of each core
    arg,        \* arguments of the call a core is in
    val,        \* dispatch: the raw value read from GICC_IAR
    snap,       \* dispatch: the cloned handler list
    idx,        \* dispatch: position of the iteration over the clone
    cpu,        \* what a core did in its current dispatch iteration
    wr,         \* the distributor writes of a core's current call
    pre,        \* the registry when a core's register call took the lock
    acq,        \* per id, the handlers of the calls that took the lock, in order
    err,        \* panic message of a core
    ncalls,     \* number of register/trigger calls made so far
    ret,        \* position a core's register call returns to
    lazy,       \* state of the Lazy cell of IRQ
    gic,        \* the writes Irq::new made, in order, as runs
    newpos,     \* Irq::new: the loop and the element the next write is for
    inits,      \* number of times Irq::new was entered
    tbuf,       \* touch: the buffer shared with the VC
    tguard,     \* touch: the cores holding the Lock of the buffer
    tsaved,     \* touch: Touch.saved
    tpc,        \* touch: position of each core inside poll
    tstate,     \* touch: poll's copy of the buffer
    tused       \* touch: per publication, the polls that consumed it

\* The state of the initialization of IRQ.
bootvars == <<lazy, gic, newpos, inits>>

\* The state of the touchscreen driver.
touchvars == <<tbuf, tguard, tsaved, tpc, tstate, tused>>

\* The state of the registry, of its users and of the set-enable words.
irqvars == <<handlers, rw, isenabler, enables, pc, arg, val, snap, idx, cpu, wr,
             pre, acq, err, ncalls, ret>>

vars == <<handlers, rw, isenabler, enables, pc, arg, val, snap, idx, cpu, wr,
          pre, acq, err, ncalls, ret, lazy, gic, newpos, inits, tbuf, tguard,
          tsaved, tpc, tstate, tused>>

NoArg == [op |-> "none", irq |-> 0, handler |-> NoHandler]

\* The call of dispatch, which has no arguments.
DispatchArg == [op |-> "dispatch", irq |-> 0, handler |-> NoHandler]

Ev(e, v, h) == [ev |-> e, val |-> v, h |-> h]

Log(c, e, v, h) == [cpu EXCEPT ![c] = Append(@, Ev(e, v, h))]

Wr(r, i, v) == [reg |-> r, idx |-> i, val |-> v]

EmptyMap == [k \in {} |-> <<>>]

\* The list of an id in a registry, empty when the id has no entry.
ListOf(map, irq) == IF irq \in DOMAIN map THEN map[irq] ELSE <<>>

\* One more handler for irq, after those already there.
Recorded(map, irq, h) ==
    [k \in (DOMAIN map) \cup {irq} |->
        IF k = irq
        THEN Append(IF k \in DOMAIN map THEN map[k] ELSE <<>>, h)
        ELSE map[k]]

\* One more write of v to set-enable word i.
Counted(n, i, v) ==
    [k \in (DOMAIN n) \cup {<<i, v>>} |->
        IF k = <<i, v>>
        THEN (IF k \in DOMAIN n THEN n[k] ELSE 0) + 1
        ELSE n[k]]

\* A point of the touch buffer whose bytes are all zero.
ZeroPoint == [x_msb |-> 0, x_lsb |-> 0, y_msb |-> 0, y_lsb |-> 0]

\* The touch buffer as Touch::new leaves it: points_len is INVALID_POINTS
\* and the points hold whatever the memory held.
NewBuffer(pts) == [len |-> INVALID_POINTS, pts |-> pts, gen |-> 0]

\* The copy of the buffer of a core that is not inside poll.
NoState == NewBuffer(<<ZeroPoint, ZeroPoint>>)

\* The touchscreen driver once constructed, with no poll in progress.
TouchInit(pts) ==
    /\ tbuf = NewBuffer(pts)
    /\ tguard = {}
    /\ tsaved = "none"
    /\ tpc = [c \in Cores |-> "idle"]
    /\ tstate = [c \in Cores |-> NoState]
    /\ tused = <<>>

\* The registry and the cores once IRQ is constructed.
IrqInit ==
    /\ handlers = EmptyMap
    /\ rw = [writer |-> {}, readers |-> {}]
    /\ isenabler = [w \in 0..(ISENABLER_LEN - 1) |-> {}]
    /\ enables = EmptyMap
    /\ pc = [c \in Cores |-> "idle"]
    /\ arg = [c \in Cores |-> NoArg]
    /\ val = [c \in Cores |-> {}]
    /\ snap = [c \in Cores |-> <<>>]
    /\ idx = [c \in Cores |-> 1]
    /\ cpu = [c \in Cores |-> <<>>]
    /\ wr = [c \in Cores |-> <<>>]
    /\ pre = [c \in Cores |-> EmptyMap]
    /\ acq = EmptyMap
    /\ err = [c \in Cores |-> "none"]
    /\ ncalls = 0
    /\ ret = [c \in Cores |-> "idle"]

(* ------------------------------------------------------------------ *)
(* Irq::new and the Lazy cell of IRQ (crate::sync::Lazy)               *)
(* ------------------------------------------------------------------ *)

\* 0xFFFFFFFF
AllOnesWord == 0..(U32_BITS - 1)

\* 0x55555555
LevelWord == {i \in 0..(U32_BITS - 1) : i % 2 = 0}

\* Elements from..to of register reg written val, one after the other.
Run(reg, from, to, v) == [reg |-> reg, from |-> from, to |-> to, val |-> v]

\* The loops with the priority bytes written before the priority mask.
NewLoopsPriorityFirst ==
    <<Run("ICENABLER", 0, ISENABLER_LEN - 1, AllOnesWord),
      Run("IPRIORITYR", 0, IRQ_COUNT - 1, Word(PRIORITY)),
      Run("PMR", 0, 0, Word(PRIORITY_MASK)),
      Run("ICFGR", 0, ICFGR_LEN - 1, LevelWord),
      Run("ITARGETSR", PRIVATE_COUNT, IRQ_COUNT - 1, Word(TARGET_ALL))>>

\* The loops of Irq::new in the order of the code: the register each one
\* writes, the elements it covers and the value it writes to each.
NewLoops ==
    <<Run("ICENABLER", 0, ISENABLER_LEN - 1, AllOnesWord),
      Run("PMR", 0, 0, Word(PRIORITY_MASK)),
      Run("IPRIORITYR", 0, IRQ_COUNT - 1, Word(PRIORITY)),
      Run("ICFGR", 0, ICFGR_LEN - 1, LevelWord),
      Run("ITARGETSR", PRIVATE_COUNT, IRQ_COUNT - 1, Word(TARGET_ALL))>>

\* The log of writes with one more write, of v to element i of reg: a
\* write that continues the last run extends it, any other starts a run.
Written(log, reg, i, v) ==
    IF /\ log # <<>>
       /\ log[Len(log)].reg = reg
       /\ log[Len(log)].val = v
       /\ log[Len(log)].to + 1 = i
    THEN [log EXCEPT ![Len(log)].to = i]
    ELSE Append(log, Run(reg, i, i, v))

\* Position of Irq::new before its first write and after its last.
NewStart == [loop |-> 1, elem |-> NewLoops[1].from]
NewDone == [loop |-> Len(NewLoops) + 1, elem |-> 0]

\* The core that runs Irq::new, if any.
NoCore == 0

\* IRQ is constructed: Lazy hands out the reference to it.
IrqReady == lazy.state = "ready"

\* IRQ once forced: Irq::new ran once, from its first write to its last.
BootReady ==
    /\ lazy = [state |-> "ready", by |-> NoCore]
    /\ gic = NewLoops
    /\ newpos = NewDone
    /\ inits = 1

\* The effect of writing v to a clear-enable word on the enable state w of
\* its lines: the lines whose bit is set in v are disabled.
ClearEnable(w, v) == w \ v

\* The position of Irq::new after the write at position p.
NewAfter(p) ==
    IF p.elem < NewLoops[p.loop].to
    THEN [p EXCEPT !.elem = p.elem + 1]
    ELSE IF p.loop < Len(NewLoops)
         THEN [loop |-> p.loop + 1, elem |-> NewLoops[p.loop + 1].from]
         ELSE NewDone

\* A core refers to IRQ while it is not constructed: it enters Lazy.
LazyEnter(c) ==
    /\ pc[c] = "idle"
    /\ ~IrqReady
    /\ pc' = [pc EXCEPT ![c] = "lazy"]
    /\ UNCHANGED <<handlers, rw, isenabler, enables, arg, val, snap, idx, cpu,
                   wr, pre, acq, err, ncalls, ret, bootvars, touchvars>>

\* Any core inside Lazy starts the initializer, whether or not one runs.
LazyForceRacing(c) ==
    /\ pc[c] = "lazy"
    /\ lazy.state \in {"uninit", "running"}
    /\ lazy' = [state |-> "running", by |-> c]
    /\ inits' = inits + 1
    /\ newpos' = NewStart
    /\ pc' = [pc EXCEPT ![c] = "new"]
    /\ UNCHANGED <<handlers, rw, isenabler, enables, arg, val, snap, idx, cpu,
                   wr, pre, acq, err, ncalls, ret, gic, touchvars>>

\* The one core that finds the cell empty runs the initializer, Irq::new.
LazyForce(c) ==
    /\ pc[c] = "lazy"
    /\ lazy.state = "uninit"
    /\ lazy' = [state |-> "running", by |-> c]
    /\ inits' = inits + 1
    /\ newpos' = NewStart
    /\ pc' = [pc EXCEPT ![c] = "new"]
    /\ UNCHANGED <<handlers, rw, isenabler, enables, arg, val, snap, idx, cpu,
                   wr, pre, acq, err, ncalls, ret, gic, touchvars>>

\* Irq::new: the next write_volatile of its loops.
NewWrite(c) ==
    /\ pc[c] = "new"
    /\ newpos # NewDone
    /\ LET loop == NewLoops[newpos.loop]
           i == newpos.elem
       IN /\ gic' = Written(gic, loop.reg, i, loop.val)
          /\ isenabler' = IF loop.reg = "ICENABLER"
                          THEN [isenabler EXCEPT ![i] = ClearEnable(@, loop.val)]
                          ELSE isenabler
    /\ newpos' = NewAfter(newpos)
    /\ UNCHANGED <<handlers, rw, enables, pc, arg, val, snap, idx, cpu, wr, pre,
                   acq, err, ncalls, ret, lazy, inits, touchvars>>

\* Irq::new: Self { handlers: RwLock::new(BTreeMap::new()) }
NewRegistry(c) ==
    /\ pc[c] = "new"
    /\ newpos = NewDone
    /\ handlers' = EmptyMap
    /\ rw' = [writer |-> {}, readers |-> {}]
    /\ lazy' = [lazy EXCEPT !.state = "built"]
    /\ pc' = [pc EXCEPT ![c] = "lazy_store"]
    /\ UNCHANGED <<isenabler, enables, arg, val, snap, idx, cpu, wr, pre, acq,
                   err, ncalls, ret, gic, newpos, inits, touchvars>>

\* Lazy stores what the initializer returned and hands it out.
LazyStore(c) ==
    /\ pc[c] = "lazy_store"
    /\ lazy' = [state |-> "ready", by |-> NoCore]
    /\ pc' = [pc EXCEPT ![c] = "idle"]
    /\ UNCHANGED <<handlers, rw, isenabler, enables, arg, val, snap, idx, cpu,
                   wr, pre, acq, err, ncalls, ret, gic, newpos, inits, touchvars>>

\* A core that waited inside Lazy finds IRQ constructed.
LazyWake(c) ==
    /\ pc[c] = "lazy"
    /\ IrqReady
    /\ pc' = [pc EXCEPT ![c] = "idle"]
    /\ UNCHANGED <<handlers, rw, isenabler, enables, arg, val, snap, idx, cpu,
                   wr, pre, acq, err, ncalls, ret, bootvars, touchvars>>

\* IRQ before its first use: the cell is empty, no write was made, and the
\* lines are in the enable state e the distributor was left in.
BootStart(e) ==
    /\ lazy = [state |-> "uninit", by |-> NoCore]
    /\ gic = <<>>
    /\ newpos = NewStart
    /\ inits = 0
    /\ isenabler = [w \in 0..(ISENABLER_LEN - 1) |-> e]

\* The state once IRQ and TOUCH are constructed.
Init ==
    /\ IrqInit
    /\ BootReady
    /\ TouchInit(<<ZeroPoint, ZeroPoint>>)

(* ------------------------------------------------------------------ *)
(* The reader/writer lock (crate::sync::RwLock)                        *)
(* ------------------------------------------------------------------ *)

\* wlock() returns once no other guard exists.
CanWLock == rw.writer = {} /\ rw.readers = {}

\* rlock() returns once no write guard exists.
CanRLock == rw.writer = {}

(* ------------------------------------------------------------------ *)
(* Irq::register                                                       *)
(* ------------------------------------------------------------------ *)

\* The assertion with the bound included.
RegisterInRangeInclusive(irq) == irq <= IRQ_COUNT

\* assert!((irq as usize) < IRQ_COUNT)
RegisterInRange(irq) == irq < IRQ_COUNT

\* The bit position written in place of the bit.
EnableValUnshifted(irq) == BitAnd(Word(irq), BitMaskWord)

\* let val = 0x1 << (irq & 0x1F);
EnableVal(irq) == Shl(OneWord, Num(BitAnd(Word(irq), BitMaskWord)))

\* The word index computed with 16 ids per word, as for the config words.
EnableIdxBySixteen(irq) == Shr(irq, WORD_SHIFT - 1)

\* let idx = irq as usize >> 5;
EnableIdx(irq) == Shr(irq, WORD_SHIFT)

\* The clear-enable register in place of the set-enable register.
EnableRegClear == "ICENABLER"

\* The register the first registration of an id writes: GICD_ISENABLER.
EnableReg == "ISENABLER"

\* handlers.get_mut(&irq) is Some
HasEntry(map, irq) == irq \in DOMAIN map

\* The handler put in front of the list.
PushedFront(map, irq, h) == [map EXCEPT ![irq] = <<h>> \o @]

\* vec.push(handler)
Pushed(map, irq, h) == [map EXCEPT ![irq] = Append(@, h)]

\* A fresh map that holds the new entry alone.
InsertedAlone(map, irq, h) == [k \in {irq} |-> <<h>>]

\* handlers.insert(irq, vec![handler])
Inserted(map, irq, h) ==
    [k \in (DOMAIN map) \cup {irq} |-> IF k = irq THEN <<h>> ELSE map[k]]

\* The effect of writing v to a set-enable word holding w: the bits set in
\* v become set, the others keep their state.
SetEnable(w, v) == BitOr(w, v)

\* Entry of the call, up to the assertion.
RegisterCall(c, irq, h) ==
    /\ pc[c] = "idle"
    /\ IrqReady
    /\ ncalls < MaxCalls
    /\ ncalls' = ncalls + 1
    /\ arg' = [arg EXCEPT ![c] = [op |-> "register", irq |-> irq, handler |-> h]]
    /\ IF RegisterInRange(irq)
       THEN /\ pc' = [pc EXCEPT ![c] = "reg_wlock"]
            /\ err' = err
       ELSE /\ pc' = [pc EXCEPT ![c] = "panic"]
            /\ err' = [err EXCEPT ![c] = "IRQ is out of range"]
    /\ UNCHANGED <<handlers, rw, isenabler, enables, val, snap, idx, cpu, wr,
                   pre, acq,
                   ret, bootvars, touchvars>>

\* The registry entered without waiting for the other guards to be dropped.
RegisterWLockUnguarded(c) ==
    /\ pc[c] = "reg_wlock"
    /\ rw' = [rw EXCEPT !.writer = {c}]
    /\ pre' = [pre EXCEPT ![c] = handlers]
    /\ acq' = Recorded(acq, arg[c].irq, arg[c].handler)
    /\ pc' = [pc EXCEPT ![c] = "reg_locked"]
    /\ UNCHANGED <<handlers, isenabler, enables, arg, val, snap, idx, cpu, wr,
                   err, ncalls,
                   ret, bootvars, touchvars>>

\* self.handlers.wlock()
RegisterWLock(c) ==
    /\ pc[c] = "reg_wlock"
    /\ CanWLock
    /\ rw' = [rw EXCEPT !.writer = {c}]
    /\ pre' = [pre EXCEPT ![c] = handlers]
    /\ acq' = Recorded(acq, arg[c].irq, arg[c].handler)
    /\ pc' = [pc EXCEPT ![c] = "reg_locked"]
    /\ UNCHANGED <<handlers, isenabler, enables, arg, val, snap, idx, cpu, wr,
                   err, ncalls,
                   ret, bootvars, touchvars>>

\* if let Some(vec) = handlers.get_mut(&irq) { vec.push(handler); return; }
RegisterPush(c) ==
    /\ pc[c] = "reg_locked"
    /\ HasEntry(handlers, arg[c].irq)
    /\ handlers' = Pushed(handlers, arg[c].irq, arg[c].handler)
    /\ pc' = [pc EXCEPT ![c] = "reg_ret"]
    /\ UNCHANGED <<rw, isenabler, enables, arg, val, snap, idx, cpu, wr, pre,
                   err, ncalls, acq,
                   ret, bootvars, touchvars>>

\* write_volatile((*GICD_ISENABLER).get_mut(idx).unwrap(), val)
\* A panic leaves the guard held when it aborts, and drops it when it
\* unwinds.
RegisterEnable(c) ==
    /\ pc[c] = "reg_locked"
    /\ ~HasEntry(handlers, arg[c].irq)
    /\ LET i == EnableIdx(arg[c].irq)
           v == EnableVal(arg[c].irq)
       IN IF i < ISENABLER_LEN
          THEN /\ wr' = [wr EXCEPT ![c] = Append(@, Wr(EnableReg, i, v))]
               /\ isenabler' = [isenabler EXCEPT ![i] = SetEnable(@, v)]
               /\ enables' = Counted(enables, i, v)
               /\ pc' = [pc EXCEPT ![c] = "reg_insert"]
               /\ UNCHANGED <<rw, err>>
          ELSE /\ pc' = [pc EXCEPT ![c] = "panic"]
               /\ err' = [err EXCEPT ![c] = "unwrap on None"]
               /\ \/ rw' = rw
                  \/ rw' = [rw EXCEPT !.writer = {}]
               /\ UNCHANGED <<wr, isenabler, enables>>
    /\ UNCHANGED <<handlers, arg, val, snap, idx, cpu, pre, ncalls, acq,
                   ret, bootvars, touchvars>>

\* let vec = vec![handler]; handlers.insert(irq, vec);
RegisterInsert(c) ==
    /\ pc[c] = "reg_insert"
    /\ handlers' = Inserted(handlers, arg[c].irq, arg[c].handler)
    /\ pc' = [pc EXCEPT ![c] = "reg_ret"]
    /\ UNCHANGED <<rw, isenabler, enables, arg, val, snap, idx, cpu, wr, pre,
                   err, ncalls, acq,
                   ret, bootvars, touchvars>>

\* The guard and the locals are dropped as the call returns to its caller:
\* the code that called register, or the handler that did.
RegisterReturn(c) ==
    /\ pc[c] = "reg_ret"
    /\ rw' = [rw EXCEPT !.writer = {}]
    /\ pc' = [pc EXCEPT ![c] = ret[c]]
    /\ arg' = [arg EXCEPT ![c] = IF ret[c] = "idle" THEN NoArg ELSE DispatchArg]
    /\ ret' = [ret EXCEPT ![c] = "idle"]
    /\ wr' = [wr EXCEPT ![c] = <<>>]
    /\ pre' = [pre EXCEPT ![c] = EmptyMap]
    /\ UNCHANGED <<handlers, isenabler, enables, val, snap, idx, cpu, err,
                   ncalls, acq, bootvars, touchvars>>

(* ------------------------------------------------------------------ *)
(* Irq::trigger                                                        *)
(* ------------------------------------------------------------------ *)

\* The assertion of register used for trigger.
TriggerInRangeAsRegister(irq) == irq < IRQ_COUNT

\* assert!(irq < 16)
TriggerInRange(irq) == irq < SGI_COUNT

\* The target list filter "all cores but this one" in place of the list.
SgiValOthers(irq) == BitOr({24}, Word(irq))

\* let val = 0xFF8000 | irq;
SgiVal(irq) == BitOr(AllCoresWord, Word(irq))

\* The assertion and GICD_SGIR.write_volatile(val).
Trigger(c, irq) ==
    /\ pc[c] = "idle"
    /\ IrqReady
    /\ ncalls < MaxCalls
    /\ ncalls' = ncalls + 1
    /\ arg' = [arg EXCEPT ![c] = [op |-> "trigger", irq |-> irq, handler |-> NoHandler]]
    /\ IF TriggerInRange(irq)
       THEN /\ wr' = [wr EXCEPT ![c] = Append(@, Wr("SGIR", 0, SgiVal(irq)))]
            /\ pc' = [pc EXCEPT ![c] = "trig_ret"]
            /\ err' = err
       ELSE /\ pc' = [pc EXCEPT ![c] = "panic"]
            /\ err' = [err EXCEPT ![c] = "SGI outside of the valid range"]
            /\ wr' = wr
    /\ UNCHANGED <<handlers, rw, isenabler, enables, val, snap, idx, cpu, pre, acq,
                   ret, bootvars, touchvars>>

\* The call returns.
TriggerReturn(c) ==
    /\ pc[c] = "trig_ret"
    /\ pc' = [pc EXCEPT ![c] = "idle"]
    /\ arg' = [arg EXCEPT ![c] = NoArg]
    /\ wr' = [wr EXCEPT ![c] = <<>>]
    /\ UNCHANGED <<handlers, rw, isenabler, enables, val, snap, idx, cpu, pre,
                   err, ncalls, acq,
                   ret, bootvars, touchvars>>

(* ------------------------------------------------------------------ *)
(* Irq::dispatch                                                       *)
(* ------------------------------------------------------------------ *)

\* let irq = val & 0x3FF;
AckIrq(v) == Num(BitAnd(v, IdMaskWord))

\* The test with the bound excluded.
IsIdleStrict(irq) == irq > IRQ_COUNT

\* if irq as usize >= IRQ_COUNT
IsIdle(irq) == irq >= IRQ_COUNT

\* The stripped id written in place of the raw value.
EoiValStripped(v) == Word(AckIrq(v))

\* GICC_EOIR.write_volatile(val as _)
EoiVal(v) == v

\* The iteration from the last handler to the first.
NextHandlerReversed(s, i) == s[Len(s) + 1 - i]

\* The i-th handler that iter() yields.
NextHandler(s, i) == s[i]

\* The position after the acknowledge read.
AfterAck(v) == IF IsIdle(AckIrq(v)) THEN "disp_wfi" ELSE "disp_rlock"

\* The end of the loop body as the position after the read guard is dropped.
AfterUnlockSkipping == "disp_next"

\* The position after the read guard is dropped: the handlers are invoked.
AfterUnlock == "disp_each"

\* The call of dispatch, which never returns.
DispatchEnter(c) ==
    /\ pc[c] = "idle"
    /\ IrqReady
    /\ pc' = [pc EXCEPT ![c] = "disp_iar"]
    /\ arg' = [arg EXCEPT ![c] = DispatchArg]
    /\ UNCHANGED <<handlers, rw, isenabler, enables, val, snap, idx, cpu, wr,
                   pre, err, ncalls, acq,
                   ret, bootvars, touchvars>>

\* let val = GICC_IAR.read_volatile(); let irq = val & 0x3FF; and the test
\* of irq against IRQ_COUNT.
DispatchAck(c, v) ==
    /\ pc[c] = "disp_iar"
    /\ val' = [val EXCEPT ![c] = v]
    /\ cpu' = Log(c, "iar", v, NoHandler)
    /\ pc' = [pc EXCEPT ![c] = AfterAck(v)]
    /\ UNCHANGED <<handlers, rw, isenabler, enables, arg, snap, idx, wr, pre,
                   err, ncalls, acq,
                   ret, bootvars, touchvars>>

\* msr daifclr, 0x3; wfi; msr daifset, 0x3; continue
DispatchWfi(c) ==
    /\ pc[c] = "disp_wfi"
    /\ cpu' = Log(c, "wfi", {}, NoHandler)
    /\ pc' = [pc EXCEPT ![c] = "disp_next"]
    /\ UNCHANGED <<handlers, rw, isenabler, enables, arg, val, snap, idx, wr,
                   pre, err, ncalls, acq,
                   ret, bootvars, touchvars>>

\* The registry read without waiting for the write guard to be dropped.
DispatchRLockUnguarded(c) ==
    /\ pc[c] = "disp_rlock"
    /\ rw' = [rw EXCEPT !.readers = @ \cup {c}]
    /\ cpu' = Log(c, "rlock", {}, NoHandler)
    /\ pc' = [pc EXCEPT ![c] = "disp_get"]
    /\ UNCHANGED <<handlers, isenabler, enables, arg, val, snap, idx, wr, pre,
                   err, ncalls, acq,
                   ret, bootvars, touchvars>>

\* self.handlers.rlock()
DispatchRLock(c) ==
    /\ pc[c] = "disp_rlock"
    /\ CanRLock
    /\ rw' = [rw EXCEPT !.readers = @ \cup {c}]
    /\ cpu' = Log(c, "rlock", {}, NoHandler)
    /\ pc' = [pc EXCEPT ![c] = "disp_get"]
    /\ UNCHANGED <<handlers, isenabler, enables, arg, val, snap, idx, wr, pre,
                   err, ncalls, acq,
                   ret, bootvars, touchvars>>

\* The lookup that takes a missing entry for an empty list.
DispatchGetOrEmpty(c) ==
    /\ pc[c] = "disp_get"
    /\ LET irq == AckIrq(val[c])
       IN /\ cpu' = Log(c, "get", Word(irq), NoHandler)
          /\ snap' = [snap EXCEPT ![c] = ListOf(handlers, irq)]
          /\ pc' = [pc EXCEPT ![c] = "disp_unlock"]
    /\ UNCHANGED <<handlers, rw, isenabler, enables, arg, val, idx, wr, pre,
                   err, ncalls, acq,
                   ret, bootvars, touchvars>>

\* .get(&irq).expect("Received an IRQ without a handler").clone()
\* A panic leaves the guard held when it aborts, and drops it when it
\* unwinds.
DispatchGet(c) ==
    /\ pc[c] = "disp_get"
    /\ LET irq == AckIrq(val[c])
       IN /\ cpu' = Log(c, "get", Word(irq), NoHandler)
          /\ IF HasEntry(handlers, irq)
             THEN /\ snap' = [snap EXCEPT ![c] = handlers[irq]]
                  /\ pc' = [pc EXCEPT ![c] = "disp_unlock"]
                  /\ UNCHANGED <<rw, err>>
             ELSE /\ pc' = [pc EXCEPT ![c] = "panic"]
                  /\ err' = [err EXCEPT ![c] = "Received an IRQ without a handler"]
                  /\ \/ rw' = rw
                     \/ rw' = [rw EXCEPT !.readers = @ \ {c}]
                  /\ snap' = snap
    /\ UNCHANGED <<handlers, isenabler, enables, arg, val, idx, wr, pre, ncalls, acq,
                   ret, bootvars, touchvars>>

\* The read guard kept until the end of the iteration.
DispatchUnlockKeeping(c) ==
    /\ pc[c] = "disp_unlock"
    /\ rw' = rw
    /\ cpu' = Log(c, "runlock", {}, NoHandler)
    /\ pc' = [pc EXCEPT ![c] = AfterUnlock]
    /\ UNCHANGED <<handlers, isenabler, enables, arg, val, snap, idx, wr, pre,
                   err, ncalls, acq,
                   ret, bootvars, touchvars>>

\* The read guard, a temporary, is dropped at the end of the statement.
DispatchUnlock(c) ==
    /\ pc[c] = "disp_unlock"
    /\ rw' = [rw EXCEPT !.readers = @ \ {c}]
    /\ cpu' = Log(c, "runlock", {}, NoHandler)
    /\ pc' = [pc EXCEPT ![c] = AfterUnlock]
    /\ UNCHANGED <<handlers, isenabler, enables, arg, val, snap, idx, wr, pre,
                   err, ncalls, acq,
                   ret, bootvars, touchvars>>

\* The registry's own list of the id, as it is now.
IteratedLive(c) == ListOf(handlers, AckIrq(val[c]))

\* The list that handlers.iter() walks: the clone made under the guard.
Iterated(c) == snap[c]

\* handlers.iter().for_each(|handler| handler()): the call of the next one.
DispatchCall(c) ==
    /\ pc[c] = "disp_each"
    /\ idx[c] <= Len(Iterated(c))
    /\ cpu' = Log(c, "call", {}, NextHandler(Iterated(c), idx[c]))
    /\ pc' = [pc EXCEPT ![c] = "disp_handler"]
    /\ UNCHANGED <<handlers, rw, isenabler, enables, arg, val, snap, idx, wr,
                   pre, err, ncalls, acq,
                   ret, bootvars, touchvars>>

\* The handler returns and the iteration moves on.
DispatchHandlerReturn(c) ==
    /\ pc[c] = "disp_handler"
    /\ cpu' = Log(c, "ret", {}, NextHandler(Iterated(c), idx[c]))
    /\ idx' = [idx EXCEPT ![c] = @ + 1]
    /\ pc' = [pc EXCEPT ![c] = "disp_each"]
    /\ UNCHANGED <<handlers, rw, isenabler, enables, arg, val, snap, wr, pre,
                   err, ncalls, acq,
                   ret, bootvars, touchvars>>

\* A handler that runs calls IRQ.register(irq, h), as the handler that
\* forces TOUCH does through Touch::new; the call returns to the handler.
HandlerRegister(c, irq, h) ==
    /\ pc[c] = "disp_handler"
    /\ NextHandler(Iterated(c), idx[c]) \in Registrars
    /\ IrqReady
    /\ ncalls < MaxCalls
    /\ ncalls' = ncalls + 1
    /\ arg' = [arg EXCEPT ![c] = [op |-> "register", irq |-> irq, handler |-> h]]
    /\ ret' = [ret EXCEPT ![c] = "disp_handler"]
    /\ IF RegisterInRange(irq)
       THEN /\ pc' = [pc EXCEPT ![c] = "reg_wlock"]
            /\ err' = err
       ELSE /\ pc' = [pc EXCEPT ![c] = "panic"]
            /\ err' = [err EXCEPT ![c] = "IRQ is out of range"]
    /\ UNCHANGED <<handlers, rw, isenabler, enables, val, snap, idx, cpu, wr,
                   pre, acq, bootvars, touchvars>>

\* GICC_EOIR.write_volatile(val as _), once the iteration is over.
DispatchEoi(c) ==
    /\ pc[c] = "disp_each"
    /\ idx[c] > Len(Iterated(c))
    /\ cpu' = Log(c, "eoir", EoiVal(val[c]), NoHandler)
    /\ pc' = [pc EXCEPT ![c] = "disp_next"]
    /\ UNCHANGED <<handlers, rw, isenabler, enables, arg, val, snap, idx, wr,
                   pre, err, ncalls, acq,
                   ret, bootvars, touchvars>>

\* The end of the loop body: its locals are dropped and the loop repeats.
DispatchLoop(c) ==
    /\ pc[c] = "disp_next"
    /\ pc' = [pc EXCEPT ![c] = "disp_iar"]
    /\ val' = [val EXCEPT ![c] = {}]
    /\ snap' = [snap EXCEPT ![c] = <<>>]
    /\ idx' = [idx EXCEPT ![c] = 1]
    /\ cpu' = [cpu EXCEPT ![c] = <<>>]
    /\ UNCHANGED <<handlers, rw, isenabler, enables, arg, wr, pre, err, ncalls, acq,
                   ret, bootvars, touchvars>>

(* ------------------------------------------------------------------ *)
(* Specification                                                       *)
(* ------------------------------------------------------------------ *)

Next ==
    \E c \in Cores :
        \/ \E irq \in RegIds, h \in Handlers : RegisterCall(c, irq, h)
        \/ RegisterWLock(c)
        \/ RegisterPush(c)
        \/ RegisterEnable(c)
        \/ RegisterInsert(c)
        \/ RegisterReturn(c)
        \/ \E irq \in TrigIds : Trigger(c, irq)
        \/ TriggerReturn(c)
        \/ DispatchEnter(c)
        \/ \E v \in AckValues : DispatchAck(c, Word(v))
        \/ DispatchWfi(c)
        \/ DispatchRLock(c)
        \/ DispatchGet(c)
        \/ DispatchUnlock(c)
        \/ DispatchCall(c)
        \/ DispatchHandlerReturn(c)
        \/ DispatchEoi(c)
        \/ DispatchLoop(c)

Spec == Init /\ [][Next]_vars

(* ------------------------------------------------------------------ *)
(* Vocabulary of the properties                                        *)
(* ------------------------------------------------------------------ *)

\* Number of events of one kind in a log.
Count(log, e) == Len(SelectSeq(log, LAMBDA x : x.ev = e))

\* The invocations in a log: the calls and returns of handlers.
Invocations(log) == SelectSeq(log, LAMBDA x : x.ev \in {"call", "ret"})

\* Each handler of s called and returned from, one after the other.
OneByOne(s) ==
    [i \in 1..(2 * Len(s)) |->
        Ev(IF i % 2 = 1 THEN "call" ELSE "ret", {}, s[(i + 1) \div 2])]

\* The cores inside a dispatch iteration that acknowledged an in-range id.
InRangeIteration(c) ==
    /\ cpu[c] # <<>>
    /\ ~(AckIrq(cpu[c][1].val) >= IRQ_COUNT)

\* The cores inside a dispatch iteration that acknowledged an id that is
\* out of range.
IdleIteration(c) ==
    /\ cpu[c] # <<>>
    /\ AckIrq(cpu[c][1].val) >= IRQ_COUNT

\* The key of the set-enable write that enables an id.
EnableKey(irq) == <<irq \div 32, {irq % 32}>>

(* ------------------------------------------------------------------ *)
(* C1                                                                  *)
(* ------------------------------------------------------------------ *)

\* C1: when register(id, h) is about to return, the list of id is the list
\* it had when the call took the lock (empty if it had none) with h appended
\* as its last element, without deduplication, and the lists of all other
\* ids are as they were.
C1_RegisterAppends ==
    \A c \in Cores :
        pc[c] = "reg_ret" =>
            LET irq == arg[c].irq
                h == arg[c].handler
            IN /\ irq < IRQ_COUNT
               /\ DOMAIN handlers = (DOMAIN pre[c]) \cup {irq}
               /\ handlers[irq] = Append(ListOf(pre[c], irq), h)
               /\ \A k \in (DOMAIN pre[c]) \ {irq} : handlers[k] = pre[c][k]

\* A third call that registers, for an id that already has the same handler,
\* that handler again, while another id has an entry.
C1_Witness ==
    \E c \in Cores :
        /\ pc[c] = "reg_ret"
        /\ arg[c].irq \in DOMAIN pre[c]
        /\ handlers[arg[c].irq] = <<arg[c].handler, arg[c].handler>>
        /\ DOMAIN handlers # {arg[c].irq}

(* ------------------------------------------------------------------ *)
(* C2                                                                  *)
(* ------------------------------------------------------------------ *)

\* C2: in a dispatch iteration the invocations made so far are the handlers
\* of the list looked up, called one by one in the order of the list, each
\* returning before the next is called; the list looked up is a prefix of
\* the registered list, so its order is the registration order; and when
\* the iteration ends every handler of it was invoked exactly once.
C2_InvokesInOrder ==
    \A c \in Cores :
        InRangeIteration(c) =>
            LET all == OneByOne(snap[c])
                done == Invocations(cpu[c])
                irq == AckIrq(val[c])
            IN /\ Len(done) <= Len(all)
               /\ done = SubSeq(all, 1, Len(done))
               /\ snap[c] # <<>> =>
                    /\ irq \in DOMAIN handlers
                    /\ snap[c] = SubSeq(handlers[irq], 1, Len(snap[c]))
               /\ pc[c] = "disp_next" => done = all /\ snap[c] # <<>>

\* An iteration that ended after invoking h1 and then h2.
C2_Witness ==
    \E c \in Cores :
        /\ pc[c] = "disp_next"
        /\ snap[c] = <<"h1", "h2">>
        /\ Invocations(cpu[c]) = <<Ev("call", {}, "h1"), Ev("ret", {}, "h1"),
                                   Ev("call", {}, "h2"), Ev("ret", {}, "h2")>>

(* ------------------------------------------------------------------ *)
(* C3                                                                  *)
(* ------------------------------------------------------------------ *)

\* C3: a register call about to return has made exactly one hardware write
\* if the id had no entry when it took the lock, namely the value with only
\* bit id % 32 set to set-enable word id / 32, a valid word index, and no
\* hardware write at all if the id had an entry; the lookup of the word
\* never fails.
C3_EnableWrittenOnce ==
    \A c \in Cores :
        /\ err[c] # "unwrap on None"
        /\ pc[c] = "reg_ret" =>
            LET irq == arg[c].irq
            IN IF irq \in DOMAIN pre[c]
               THEN wr[c] = <<>>
               ELSE /\ wr[c] = <<Wr("ISENABLER", irq \div 32, {irq % 32})>>
                    /\ irq \div 32 \in 0..(ISENABLER_LEN - 1)
        /\ pc[c] = "reg_insert" => Len(wr[c]) = 1

\* A later registration for an id, the last valid one, whose first
\* registration wrote bit 31 of word 6: it wrote nothing.
C3_Witness ==
    \E c \in Cores :
        /\ pc[c] = "reg_ret"
        /\ arg[c].irq = IRQ_COUNT - 1
        /\ arg[c].irq \in DOMAIN pre[c]
        /\ wr[c] = <<>>
        /\ EnableKey(arg[c].irq) \in DOMAIN enables
        /\ enables[EnableKey(arg[c].irq)] = 1
        /\ isenabler[6] = {31}

(* ------------------------------------------------------------------ *)
(* C4                                                                  *)
(* ------------------------------------------------------------------ *)

\* C4: on each core an iteration begins with one acknowledge read; an
\* end-of-interrupt write is the last access of its iteration, carries the
\* unmodified raw value of that iteration's acknowledge, and is made once
\* every handler of the iteration has returned; an iteration that
\* acknowledged an in-range id with a handler list ends with exactly one
\* such write; and the next acknowledge read is made only when the
\* iteration has ended.
C4_AckEoiAlternate ==
    \A c \in Cores :
        LET log == cpu[c]
        IN /\ Count(log, "iar") <= 1
           /\ log # <<>> => log[1].ev = "iar" /\ log[1].val = val[c]
           /\ \A i \in 1..Len(log) :
                log[i].ev = "eoir" =>
                    /\ i = Len(log)
                    /\ log[i].val = log[1].val
                    /\ pc[c] = "disp_next"
                    /\ Count(log, "call") = Len(snap[c])
                    /\ Count(log, "ret") = Len(snap[c])
           /\ (pc[c] = "disp_next" /\ InRangeIteration(c)) =>
                Count(log, "eoir") = 1
           /\ pc[c] = "disp_iar" => log = <<>>

\* The iteration that acknowledged SGI 3 sent by core 1 retired it with the
\* sender bits in place.
C4_Witness ==
    \E c \in Cores :
        /\ pc[c] = "disp_next"
        /\ cpu[c][1] = Ev("iar", Word(1027), NoHandler)
        /\ cpu[c][Len(cpu[c])] = Ev("eoir", Word(1027), NoHandler)
        /\ Word(1027) # Word(3)
        /\ Len(snap[c]) = 2

(* ------------------------------------------------------------------ *)
(* C5                                                                  *)
(* ------------------------------------------------------------------ *)

\* C5: an iteration whose acknowledge read returned a value with low 10
\* bits >= IRQ_COUNT consists of that read and one idle wait, after which
\* the loop repeats: it takes no registry lock, looks nothing up, invokes no
\* handler and writes nothing to end-of-interrupt.
C5_IdleWait ==
    \A c \in Cores :
        IdleIteration(c) =>
            /\ \/ pc[c] = "disp_wfi" /\ cpu[c] = <<Ev("iar", val[c], NoHandler)>>
               \/ /\ pc[c] = "disp_next"
                  /\ cpu[c] = <<Ev("iar", val[c], NoHandler),
                                Ev("wfi", {}, NoHandler)>>
            /\ c \notin rw.readers
            /\ snap[c] = <<>>
            /\ err[c] = "none"

\* The idle wait made for the first out-of-range id, which is not one of
\* the spurious ids, while the registry holds handlers.
C5_Witness ==
    \E c \in Cores :
        /\ pc[c] = "disp_next"
        /\ cpu[c] = <<Ev("iar", Word(IRQ_COUNT), NoHandler),
                      Ev("wfi", {}, NoHandler)>>
        /\ handlers # EmptyMap

(* ------------------------------------------------------------------ *)
(* C6                                                                  *)
(* ------------------------------------------------------------------ *)

\* C6: a dispatcher that looked up an in-range id is past the lookup only
\* if the registry held an entry for the id, which it cloned; otherwise it
\* is in the fatal state "Received an IRQ without a handler", having
\* invoked no handler and written nothing to end-of-interrupt.
C6_UnhandledIsFatal ==
    \A c \in Cores :
        /\ (InRangeIteration(c) /\ Count(cpu[c], "get") = 1) =>
            \/ /\ pc[c] = "panic"
               /\ err[c] = "Received an IRQ without a handler"
            \/ /\ pc[c] \in {"disp_unlock", "disp_each", "disp_handler",
                             "disp_next"}
               /\ AckIrq(val[c]) \in DOMAIN handlers
               /\ snap[c] # <<>>
               /\ err[c] = "none"
        /\ err[c] = "Received an IRQ without a handler" =>
            /\ pc[c] = "panic"
            /\ cpu[c] = <<Ev("iar", val[c], NoHandler),
                          Ev("rlock", {}, NoHandler),
                          Ev("get", Word(AckIrq(val[c])), NoHandler)>>

\* A dispatcher in the fatal state for id 142 while another id has handlers.
C6_Witness ==
    \E c \in Cores :
        /\ pc[c] = "panic"
        /\ err[c] = "Received an IRQ without a handler"
        /\ AckIrq(val[c]) = 142
        /\ handlers # EmptyMap

(* ------------------------------------------------------------------ *)
(* C7                                                                  *)
(* ------------------------------------------------------------------ *)

C7_State ==
    \A c \in Cores :
        (arg[c].op = "register" /\ arg[c].irq >= IRQ_COUNT) =>
            /\ pc[c] = "panic"
            /\ err[c] = "IRQ is out of range"
            /\ wr[c] = <<>>
            /\ c \notin rw.writer

C7_Step ==
    \A c \in Cores :
        (pc[c] = "idle" /\ arg'[c].op = "register" /\ arg'[c].irq >= IRQ_COUNT) =>
            /\ pc'[c] = "panic"
            /\ UNCHANGED <<handlers, rw, isenabler, enables, wr, acq>>

\* C7: register(id, h) with id >= IRQ_COUNT ends in the fatal state at the
\* call, without the lock ever being taken by it: the step leaves the
\* registry, the lock and the hardware registers as they were, and the call
\* writes nothing afterwards.
C7_OutOfRangeRegister == []C7_State /\ [][C7_Step]_vars

\* The fatal state of register(224, h) with handlers in the registry.
C7_Witness ==
    \E c \in Cores :
        /\ pc[c] = "panic"
        /\ arg[c].op = "register"
        /\ arg[c].irq = IRQ_COUNT
        /\ handlers # EmptyMap

(* ------------------------------------------------------------------ *)
(* C8                                                                  *)
(* ------------------------------------------------------------------ *)

C8_State ==
    \A c \in Cores :
        /\ pc[c] = "trig_ret" =>
            LET irq == arg[c].irq
            IN /\ irq \in 0..15
               /\ Len(wr[c]) = 1
               /\ wr[c][1].reg = "SGIR"
               /\ wr[c][1].val = Word(16744448 + irq)
               /\ BitAnd(wr[c][1].val, Word(15)) = Word(irq)
               /\ 16..23 \subseteq wr[c][1].val
        /\ (arg[c].op = "trigger" /\ arg[c].irq < 16) => pc[c] = "trig_ret"

C8_Step ==
    \A c \in Cores :
        (pc[c] = "idle" /\ arg'[c].op = "trigger") =>
            UNCHANGED <<handlers, rw, isenabler, enables, acq>>

\* C8: trigger(id) with id in [0, 16) makes exactly one hardware write, of
\* 0xFF8000 | id (every core in the target list, id in the low 4 bits) to
\* the SGI control register, in one step whatever the state of the lock,
\* and leaves the registry, the lock and the enable registers as they were.
C8_TriggerWrites == []C8_State /\ [][C8_Step]_vars

\* trigger(15) done while another core holds the registry lock.
C8_Witness ==
    \E c \in Cores :
        /\ pc[c] = "trig_ret"
        /\ arg[c].irq = 15
        /\ rw.writer # {}
        /\ wr[c] = <<Wr("SGIR", 0, {0, 1, 2, 3} \cup (15..23))>>

(* ------------------------------------------------------------------ *)
(* C9                                                                  *)
(* ------------------------------------------------------------------ *)

C9_State ==
    \A c \in Cores :
        (arg[c].op = "trigger" /\ arg[c].irq >= 16) =>
            /\ pc[c] = "panic"
            /\ err[c] = "SGI outside of the valid range"
            /\ wr[c] = <<>>

C9_Step ==
    \A c \in Cores :
        (pc[c] = "idle" /\ arg'[c].op = "trigger" /\ arg'[c].irq >= 16) =>
            /\ pc'[c] = "panic"
            /\ UNCHANGED <<handlers, rw, isenabler, enables, wr, acq>>

\* C9: trigger(id) with id >= 16 ends in the fatal state at the call and
\* writes no register, also for an id that register accepts: the SGI
\* control register, the other registers and the registry are as they were.
C9_OutOfRangeTrigger == []C9_State /\ [][C9_Step]_vars

\* The fatal state of trigger(142), an id valid for register.
C9_Witness ==
    \E c \in Cores :
        /\ pc[c] = "panic"
        /\ arg[c].op = "trigger"
        /\ arg[c].irq = 142
        /\ arg[c].irq < IRQ_COUNT

(* ------------------------------------------------------------------ *)
(* C10                                                                 *)
(* ------------------------------------------------------------------ *)

\* The cores that hold the lock and have not updated the registry yet.
Updating == {c \in Cores : pc[c] \in {"reg_locked", "reg_insert"}}

\* acq without the last handler recorded for irq.
WithoutLast(map, irq) ==
    IF Len(map[irq]) = 1
    THEN [k \in (DOMAIN map) \ {irq} |-> map[k]]
    ELSE [map EXCEPT ![irq] = SubSeq(@, 1, Len(@) - 1)]

\* C10: whatever the interleaving of the register calls of the cores, the
\* registry holds, per id, exactly the handlers of the calls that took the
\* lock and updated it, once each, in the order in which the calls took the
\* lock; no set-enable value is written twice; and when no call holds the
\* lock the ids with an entry are exactly the ids whose enable bit was
\* written.
C10_NoLostUpdate ==
    /\ Cardinality(Updating) <= 1
    /\ Updating = {} => handlers = acq
    /\ \A c \in Updating : handlers = WithoutLast(acq, arg[c].irq)
    /\ \A k \in DOMAIN enables : enables[k] = 1
    /\ rw.writer = {} =>
        DOMAIN enables = {EnableKey(irq) : irq \in DOMAIN handlers}

\* Two registrations for distinct ids in progress at once: one has inserted
\* its single-entry list and holds the lock, the other waits for the lock.
C10_Witness ==
    \E c, d \in Cores :
        /\ pc[c] = "reg_ret"
        /\ pc[d] = "reg_wlock"
        /\ arg[c].irq # arg[d].irq
        /\ handlers = Inserted(EmptyMap, arg[c].irq, arg[c].handler)

(* ------------------------------------------------------------------ *)
(* C15                                                                 *)
(* ------------------------------------------------------------------ *)

\* The ids whose enable bit is set in the set-enable words en.
EnabledIn(en) == UNION {{32 * w + b : b \in en[w]} : w \in DOMAIN en}

\* The ids of the set-enable writes a step makes.
EnabledByStep ==
    {arg[c].irq : c \in {d \in Cores : pc[d] = "reg_locked" /\ pc'[d] = "reg_insert"}}

C15_State ==
    rw.writer = {} =>
        /\ EnabledIn(isenabler) = DOMAIN handlers
        /\ \A k \in DOMAIN handlers : handlers[k] # <<>>

C15_Step ==
    /\ EnabledIn(isenabler) \subseteq EnabledIn(isenabler')
    /\ EnabledIn(isenabler') \ EnabledIn(isenabler) \subseteq EnabledByStep

\* C15: whenever no register call holds the exclusive lock, the ids whose
\* enable bit is set are exactly the ids with an entry in the registry and
\* every entry is a non-empty list; no step clears an enable bit, and a
\* set-enable write for one id changes the enable bit of no other id.
C15_EnabledIffRegistered == []C15_State /\ [][C15_Step]_vars

\* No call holds the lock, ids 3 and 142 are the enabled ones, and id 3 was
\* registered twice.
C15_Witness ==
    /\ rw.writer = {}
    /\ EnabledIn(isenabler) = {3, 142}
    /\ Len(ListOf(handlers, 3)) = 2

(* ------------------------------------------------------------------ *)
(* C16                                                                 *)
(* ------------------------------------------------------------------ *)

\* s is the beginning of t.
IsPrefix(s, t) == Len(s) <= Len(t) /\ SubSeq(t, 1, Len(s)) = s

\* The cores that take a step of a dispatch iteration or of trigger.
NotRegistering ==
    {c \in Cores : /\ pc'[c] # pc[c]
                   /\ \/ arg[c].op \in {"dispatch", "trigger"}
                      \/ arg'[c].op \in {"dispatch", "trigger"}}

\* The cores whose register call updates the registry in a step.
RegisterUpdating ==
    {c \in Cores : /\ arg[c].op = "register"
                   /\ pc[c] \in {"reg_locked", "reg_insert"}
                   /\ pc'[c] = "reg_ret"}

C16_Step ==
    /\ \A k \in DOMAIN handlers :
        /\ k \in DOMAIN handlers'
        /\ IsPrefix(handlers[k], handlers'[k])
    /\ handlers' # handlers => RegisterUpdating # {}
    /\ NotRegistering # {} => handlers' = handlers

\* C16: the registry only grows: in every step each id that has a list
\* keeps it as the beginning of its list after the step, so that no entry
\* is removed or replaced; a step of a dispatch iteration or of trigger
\* leaves the registry as it is, and only steps of register calls, those
\* that handlers make included, change it.
C16_RegistryGrows == [][C16_Step]_vars

\* A dispatch iteration for an in-range id has ended while id 142 has two
\* handlers, the second one registered by a handler, and id 3 has an entry
\* too.
C16_Witness ==
    \E c \in Cores :
        /\ pc[c] = "disp_next"
        /\ InRangeIteration(c)
        /\ ListOf(handlers, 142) = <<"hr", "h2">>
        /\ 3 \in DOMAIN handlers

(* ------------------------------------------------------------------ *)
(* C18: a distributor that forwards enabled lines only                 *)
(* ------------------------------------------------------------------ *)

\* What the acknowledge register can return when the distributor forwards
\* only the lines whose enable bit is set: the id of such a line, or an id
\* that names no line.
Forwarded(v) ==
    \/ AckIrq(v) \in EnabledIn(isenabler)
    \/ IsIdle(AckIrq(v))

\* The acknowledge read of dispatch under that distributor.
DispatchAckEnabled(c, v) ==
    /\ Forwarded(v)
    /\ DispatchAck(c, v)

NextEnabled ==
    \E c \in Cores :
        \/ \E irq \in RegIds, h \in Handlers : RegisterCall(c, irq, h)
        \/ RegisterWLock(c)
        \/ RegisterPush(c)
        \/ RegisterEnable(c)
        \/ RegisterInsert(c)
        \/ RegisterReturn(c)
        \/ \E irq \in TrigIds : Trigger(c, irq)
        \/ TriggerReturn(c)
        \/ DispatchEnter(c)
        \/ \E v \in AckValues : DispatchAckEnabled(c, Word(v))
        \/ DispatchWfi(c)
        \/ DispatchRLock(c)
        \/ DispatchGet(c)
        \/ DispatchUnlock(c)
        \/ DispatchCall(c)
        \/ DispatchHandlerReturn(c)
        \/ DispatchEoi(c)
        \/ DispatchLoop(c)

SpecEnabled == Init /\ [][NextEnabled]_vars

\* C18: when only ids whose enable bit register has set are acknowledged,
\* no dispatcher reaches the fatal state of an interrupt without a handler:
\* between the set-enable write and the insertion of the entry the
\* registering core holds the write guard, no dispatcher is inside its
\* lookup, and every lookup finds an entry.
C18_NoUnhandledWhenEnabled ==
    /\ \A c \in Cores : err[c] # "Received an IRQ without a handler"
    /\ \A c \in Cores :
        pc[c] = "reg_insert" =>
            /\ rw.writer = {c}
            /\ \A d \in Cores : pc[d] \notin {"disp_get", "disp_unlock"}
    /\ \A c \in Cores :
        pc[c] = "disp_get" => HasEntry(handlers, AckIrq(val[c]))

\* The first registration of id 142 has written its enable bit and has not
\* inserted the entry yet, and another core that acknowledged 142 waits for
\* the lock.
C18_Witness ==
    \E c, d \in Cores :
        /\ pc[c] = "reg_insert"
        /\ arg[c].irq = 142
        /\ ~HasEntry(handlers, 142)
        /\ pc[d] = "disp_rlock"
        /\ AckIrq(val[d]) = 142

(* ------------------------------------------------------------------ *)
(* Handlers that register                                              *)
(* ------------------------------------------------------------------ *)

NextNested ==
    \E c \in Cores :
        \/ \E irq \in NestedIds, h \in NestedHandlers : RegisterCall(c, irq, h)
        \/ RegisterWLock(c)
        \/ RegisterPush(c)
        \/ RegisterEnable(c)
        \/ RegisterInsert(c)
        \/ RegisterReturn(c)
        \/ \E irq \in NestedIds : Trigger(c, irq)
        \/ TriggerReturn(c)
        \/ DispatchEnter(c)
        \/ \E v \in NestedAcks : DispatchAck(c, Word(v))
        \/ DispatchWfi(c)
        \/ DispatchRLock(c)
        \/ DispatchGet(c)
        \/ DispatchUnlock(c)
        \/ DispatchCall(c)
        \/ \E irq \in NestedIds : HandlerRegister(c, irq, "h2")
        \/ DispatchHandlerReturn(c)
        \/ DispatchEoi(c)
        \/ DispatchLoop(c)

SpecNested == Init /\ [][NextNested]_vars

(* ------------------------------------------------------------------ *)
(* C11                                                                 *)
(* ------------------------------------------------------------------ *)

\* The cores whose dispatch iteration is at the invocation of the handlers,
\* inside a handler, or inside the register call of a handler.
Invoking ==
    {c \in Cores : pc[c] \in {"disp_each", "disp_handler"} \/ ret[c] # "idle"}

\* C11: from the first invocation of a handler on, a dispatch iteration
\* holds no guard of the registry: its read guard was dropped after the
\* lookup and the copy; so when a handler calls register, no guard of its
\* own core stands in the way of the write guard, and that call gets the
\* write guard as soon as no other core holds a guard.
C11_NoGuardWhileInvoking ==
    \A c \in Invoking :
        /\ c \notin rw.readers
        /\ (pc[c] = "reg_wlock" /\ rw.writer \ {c} = {} /\ rw.readers \ {c} = {})
               => ENABLED RegisterWLock(c)
        /\ pc[c] \in {"reg_locked", "reg_insert", "reg_ret"} => rw.writer = {c}

\* The register call made by the handler hr of id 142, for id 142 itself,
\* is about to return to the handler with the entry updated.
C11_Witness ==
    \E c \in Cores :
        /\ pc[c] = "reg_ret"
        /\ ret[c] = "disp_handler"
        /\ AckIrq(val[c]) = 142
        /\ arg[c].irq = 142
        /\ snap[c][idx[c]] = "hr"
        /\ handlers[142] = Append(snap[c], "h2")

(* ------------------------------------------------------------------ *)
(* C19                                                                 *)
(* ------------------------------------------------------------------ *)

\* The cores whose iteration has made its lookup.
LookedUp ==
    {c \in Cores : /\ InRangeIteration(c)
                   /\ pc[c] # "panic"
                   /\ \/ pc[c] \in {"disp_unlock", "disp_each", "disp_handler", "disp_next"}
                      \/ ret[c] # "idle"}

\* C19: the lookup copies the whole list the id has at that moment; the
\* handlers one iteration invokes are the handlers of that copy, in order,
\* all of them by the end of the iteration, and none that was registered
\* after the lookup, by another core or by a handler of this iteration:
\* those are appended to the list of the id, after the copied ones, where
\* every later lookup finds them.
C19_SnapshotInvoked ==
    \A c \in Cores :
        /\ pc[c] = "disp_unlock" => snap[c] = handlers[AckIrq(val[c])]
        /\ c \in LookedUp =>
            /\ IsPrefix(snap[c], handlers[AckIrq(val[c])])
            /\ IsPrefix(Invocations(cpu[c]), OneByOne(snap[c]))
            /\ pc[c] = "disp_next" => Invocations(cpu[c]) = OneByOne(snap[c])

\* An iteration for id 142 has ended having invoked h1 and hr, and no
\* other handler, while the list of 142 has a third handler, which hr
\* registered during the iteration.
C19_Witness ==
    \E c \in Cores :
        /\ pc[c] = "disp_next"
        /\ AckIrq(val[c]) = 142
        /\ snap[c] = <<"h1", "hr">>
        /\ handlers[142] = <<"h1", "hr", "h2">>
        /\ Invocations(cpu[c]) = OneByOne(<<"h1", "hr">>)
        /\ \A d \in Cores \ {c} : pc[d] = "idle"

(* ------------------------------------------------------------------ *)
(* The construction of IRQ                                             *)
(* ------------------------------------------------------------------ *)

\* Ids and raw values used where the construction is followed.
BootIds == {3, 142}
BootAcks == {142, 1023}

\* The state before the first reference to IRQ.
InitBoot ==
    /\ handlers = EmptyMap
    /\ rw = [writer |-> {}, readers |-> {}]
    /\ enables = EmptyMap
    /\ pc = [c \in Cores |-> "idle"]
    /\ arg = [c \in Cores |-> NoArg]
    /\ val = [c \in Cores |-> {}]
    /\ snap = [c \in Cores |-> <<>>]
    /\ idx = [c \in Cores |-> 1]
    /\ cpu = [c \in Cores |-> <<>>]
    /\ wr = [c \in Cores |-> <<>>]
    /\ pre = [c \in Cores |-> EmptyMap]
    /\ acq = EmptyMap
    /\ err = [c \in Cores |-> "none"]
    /\ ncalls = 0
    /\ ret = [c \in Cores |-> "idle"]
    /\ \E e \in {{}, AllOnesWord} : BootStart(e)
    /\ TouchInit(<<ZeroPoint, ZeroPoint>>)

\* The calls of register and trigger counted against BootCalls.
FirstRegister(c, irq, h) ==
    /\ ncalls < BootCalls
    /\ RegisterCall(c, irq, h)

FirstTrigger(c, irq) ==
    /\ ncalls < BootCalls
    /\ Trigger(c, irq)

NextBoot ==
    \E c \in Cores :
        \/ LazyEnter(c)
        \/ LazyForce(c)
        \/ NewWrite(c)
        \/ NewRegistry(c)
        \/ LazyStore(c)
        \/ LazyWake(c)
        \/ \E irq \in BootIds, h \in Handlers : FirstRegister(c, irq, h)
        \/ RegisterWLock(c)
        \/ RegisterPush(c)
        \/ RegisterEnable(c)
        \/ RegisterInsert(c)
        \/ RegisterReturn(c)
        \/ \E irq \in BootIds : FirstTrigger(c, irq)
        \/ TriggerReturn(c)
        \/ DispatchEnter(c)
        \/ \E v \in BootAcks : DispatchAck(c, Word(v))
        \/ DispatchWfi(c)
        \/ DispatchRLock(c)
        \/ DispatchGet(c)
        \/ DispatchUnlock(c)
        \/ DispatchCall(c)
        \/ DispatchHandlerReturn(c)
        \/ DispatchEoi(c)
        \/ DispatchLoop(c)

SpecBoot == InitBoot /\ [][NextBoot]_vars

(* ------------------------------------------------------------------ *)
(* C12                                                                 *)
(* ------------------------------------------------------------------ *)

\* C12: Irq::new is entered at most once, by one core, however the cores
\* that refer to IRQ first interleave; and until IRQ is constructed no
\* core is inside register, trigger or dispatch, no set-enable word and no
\* SGI register was written, no acknowledge was read and the registry was
\* neither locked nor changed.
C12_OnceBeforeUse ==
    /\ inits <= 1
    /\ lazy.state # "uninit" => inits = 1
    /\ Cardinality({c \in Cores : pc[c] \in {"new", "lazy_store"}}) <= 1
    /\ ~IrqReady =>
        /\ \A c \in Cores :
            /\ pc[c] \in {"idle", "lazy", "new", "lazy_store"}
            /\ wr[c] = <<>>
            /\ cpu[c] = <<>>
            /\ arg[c] = NoArg
        /\ enables = EmptyMap
        /\ acq = EmptyMap
        /\ handlers = EmptyMap
        /\ rw = [writer |-> {}, readers |-> {}]

\* Both cores referred to IRQ before it was constructed: one is half way
\* through Irq::new, the other waits inside Lazy.
C12_Witness ==
    \E c, d \in Cores :
        /\ pc[c] = "new"
        /\ newpos.loop = 3
        /\ pc[d] = "lazy"
        /\ inits = 1

(* ------------------------------------------------------------------ *)
(* C13                                                                 *)
(* ------------------------------------------------------------------ *)

\* The registers in the order of their writes, and the elements of each.
C13_Order == <<"ICENABLER", "PMR", "IPRIORITYR", "ICFGR", "ITARGETSR">>
C13_First == <<0, 0, 0, 0, 32>>
C13_Last == <<6, 0, 223, 13, 223>>

\* IRQ was returned by Irq::new.
Built == lazy.state \in {"built", "ready"}

\* C13: the writes of the initialization are, in this order, all-ones to
\* each of the clear-enable words, the priority mask 0xFF, one priority to
\* each of the ids, a level-triggered configuration to each config word,
\* and the target bytes; the registry is constructed, empty, after the last
\* of them; at that moment every line is disabled and the priority of
\* every id is numerically below the priority mask.
C13_InitOrder ==
    /\ Len(gic) <= 5
    /\ \A k \in 1..Len(gic) :
        /\ gic[k].reg = C13_Order[k]
        /\ gic[k].from = C13_First[k]
        /\ gic[k].to <= C13_Last[k]
        /\ (k < Len(gic) \/ Built) => gic[k].to = C13_Last[k]
    /\ Len(gic) >= 1 => gic[1].val = 0..31
    /\ Len(gic) >= 2 => gic[2].val = 0..7
    /\ Len(gic) >= 3 => Num(gic[3].val) < Num(gic[2].val)
    /\ Len(gic) >= 4 => \A b \in gic[4].val : b % 2 = 0
    /\ Built => Len(gic) = 5
    /\ lazy.state = "built" =>
        /\ handlers = EmptyMap
        /\ rw = [writer |-> {}, readers |-> {}]
        /\ EnabledIn(isenabler) = {}
    /\ lazy.state = "running" => pc[lazy.by] = "new"

\* Irq::new has returned the registry after its five groups of writes,
\* while the other core waits inside Lazy.
C13_Witness ==
    \E d \in Cores :
        /\ lazy.state = "built"
        /\ Len(gic) = 5
        /\ gic[5].to = 223
        /\ pc[d] = "lazy"

(* ------------------------------------------------------------------ *)
(* C14                                                                 *)
(* ------------------------------------------------------------------ *)

\* The registers that the initialization writes.
InitOnly == {"ICENABLER", "PMR", "IPRIORITYR", "ICFGR", "ITARGETSR"}

C14_State ==
    /\ \A c \in Cores : \A k \in 1..Len(wr[c]) : wr[c][k].reg \notin InitOnly
    /\ \A k \in 1..Len(gic) : gic[k].reg = "ITARGETSR" => gic[k].from >= 32
    /\ IrqReady => \E k \in 1..Len(gic) : gic[k] = Run("ITARGETSR", 32, 223, 0..7)

C14_Step ==
    /\ gic' # gic => (lazy.state = "running" /\ pc[lazy.by] = "new")
    /\ (\E c \in Cores : arg[c] # NoArg \/ arg'[c] # NoArg) => gic' = gic

\* C14: the writes that register, trigger and dispatch make are to none of
\* the clear-enable, priority mask, priority, config and target
\* registers, and no step taken while a core is inside one of these
\* operations adds a write to those the initialization made; no target
\* byte of an id below 32 is ever written, and once IRQ is constructed
\* the target byte of every id from 32 to 223 was written 0xFF.
C14_InitOnlyRegisters == []C14_State /\ [][C14_Step]_vars

\* Once IRQ is constructed, a first registration has written the
\* set-enable register and is about to return.
C14_Witness ==
    \E c \in Cores :
        /\ IrqReady
        /\ pc[c] = "reg_ret"
        /\ Len(wr[c]) = 1
        /\ wr[c][1].reg = "ISENABLER"
        /\ gic[Len(gic)].reg = "ITARGETSR"

(* ------------------------------------------------------------------ *)
(* Cores that run and a lock that is granted fairly                    *)
(* ------------------------------------------------------------------ *)

\* The calls of register counted against FairCalls.
FairRegister(c, irq, h) ==
    /\ ncalls < FairCalls
    /\ RegisterCall(c, irq, h)

FairHandlerRegister(c, irq, h) ==
    /\ ncalls < FairCalls
    /\ HandlerRegister(c, irq, h)

NextFair ==
    \E c \in Cores :
        \/ \E irq \in FairIds, h \in NestedHandlers : FairRegister(c, irq, h)
        \/ RegisterWLock(c)
        \/ RegisterPush(c)
        \/ RegisterEnable(c)
        \/ RegisterInsert(c)
        \/ RegisterReturn(c)
        \/ DispatchEnter(c)
        \/ \E v \in FairAcks : DispatchAck(c, Word(v))
        \/ DispatchWfi(c)
        \/ DispatchRLock(c)
        \/ DispatchGet(c)
        \/ DispatchUnlock(c)
        \/ DispatchCall(c)
        \/ \E irq \in FairIds : FairHandlerRegister(c, irq, "h2")
        \/ DispatchHandlerReturn(c)
        \/ DispatchEoi(c)
        \/ DispatchLoop(c)

\* The steps a core takes by itself once it is where they start: the
\* instructions of register and dispatch that wait for nothing, the wake-up
\* from wfi, and the return of the handler that runs.
Runs(c) ==
    \/ RegisterPush(c)
    \/ RegisterEnable(c)
    \/ RegisterInsert(c)
    \/ RegisterReturn(c)
    \/ \E v \in FairAcks : DispatchAck(c, Word(v))
    \/ DispatchWfi(c)
    \/ DispatchGet(c)
    \/ DispatchUnlock(c)
    \/ DispatchCall(c)
    \/ DispatchHandlerReturn(c)
    \/ DispatchEoi(c)
    \/ DispatchLoop(c)

\* Every core keeps running, every handler returns, and a core that can
\* take the lock again and again does take it.
Fairness ==
    \A c \in Cores :
        /\ WF_vars(Runs(c))
        /\ SF_vars(RegisterWLock(c))
        /\ SF_vars(DispatchRLock(c))

SpecFair == Init /\ [][NextFair]_vars /\ Fairness

(* ------------------------------------------------------------------ *)
(* C17                                                                 *)
(* ------------------------------------------------------------------ *)

\* The acknowledge of core c is of an in-range id that has handlers, and
\* its end-of-interrupt write is still to come.
Pending(c) ==
    /\ InRangeIteration(c)
    /\ HasEntry(handlers, AckIrq(cpu[c][1].val))
    /\ Count(cpu[c], "eoir") = 0

\* The iteration of core c has made its end-of-interrupt write.
Retired(c) ==
    /\ InRangeIteration(c)
    /\ cpu[c][Len(cpu[c])] = Ev("eoir", cpu[c][1].val, NoHandler)

\* A core has reached the fatal state, which halts the system.
Aborted == \E c \in Cores : pc[c] = "panic"

\* The cores that hold a guard of the registry.
Holders == rw.writer \cup rw.readers

\* Every core inside an operation can take a step, or waits for a guard of
\* the registry while a core that can take a step holds one.
C17_NeverStuck ==
    \A c \in Cores :
        (pc[c] # "idle" /\ ~Aborted) =>
            \/ ENABLED Runs(c)
            \/ /\ pc[c] = "reg_wlock"
               /\ \/ ENABLED RegisterWLock(c)
                  \/ \E d \in Holders \ {c} : ENABLED Runs(d)
            \/ /\ pc[c] = "disp_rlock"
               /\ \/ ENABLED DispatchRLock(c)
                  \/ \E d \in rw.writer \ {c} : ENABLED Runs(d)

\* C17: when the cores keep running, the handlers return and the lock is
\* granted fairly, every acknowledge of an in-range id that has handlers
\* is followed by the end-of-interrupt write of its raw value, unless the
\* system halts in a fatal state, whatever the other core registers and
\* dispatches meanwhile; and a core inside register or dispatch is never
\* unable to step except while it waits for a guard that another core,
\* which can step, holds.
C17_EventuallyRetired ==
    /\ \A c \in Cores : Pending(c) ~> (Retired(c) \/ Aborted)
    /\ []C17_NeverStuck

\* An iteration for id 142 that invoked the registering handler hr has
\* made its end-of-interrupt write, hr having registered a handler, while
\* the other core, which acknowledged 142 too, waits for the read guard.
C17_Witness ==
    \E c, d \in Cores :
        /\ Retired(c)
        /\ AckIrq(val[c]) = 142
        /\ \E i \in 1..Len(snap[c]) : snap[c][i] = "hr"
        /\ Len(handlers[142]) > Len(snap[c])
        /\ pc[d] = "disp_rlock"
        /\ AckIrq(val[d]) = 142

(* ------------------------------------------------------------------ *)
(* Touch::poll (src/src/touch.rs)                                      *)
(* ------------------------------------------------------------------ *)

\* Points the video core reports: the centre of the sensor, and a point
\* whose most significant bytes have bits above the two that count.
Centre == [x_msb |-> 1, x_lsb |-> 144, y_msb |-> 0, y_lsb |-> 240]
Corner == [x_msb |-> 255, x_lsb |-> 255, y_msb |-> 4, y_lsb |-> 0]
PointPairs == {<<Centre, Corner>>, <<Corner, Centre>>}

\* Values of points_len the video core publishes.
PublishedLens == {0, 2, 10, 11}

\* lsb as i16 | (msb as i16 & 0x3) << 8
Coord(msb, lsb) == Num(BitOr(Word(lsb), Shl(BitAnd(Word(msb), Word(3)), 8)))

\* min(WIDTH, HEIGHT)
MinSide == IF WIDTH <= HEIGHT THEN WIDTH ELSE HEIGHT

\* n as f32 / min(WIDTH, HEIGHT) as f32, kept as the quotient it rounds.
Ratio(n) == [num |-> n, den |-> MinSide]

\* The closure mapper: the coordinates of a point, centred and scaled.
Mapper(point) ==
    [x |-> Ratio(Coord(point.x_msb, point.x_lsb) * 2 - WIDTH),
     y |-> Ratio(Coord(point.y_msb, point.y_lsb) * 2 - HEIGHT),
     z |-> Ratio(0)]

\* let new = state.points.map(mapper); let new = (new[0], new[1]);
Mapped(pts) == <<Mapper(pts[1]), Mapper(pts[2])>>

\* state.points_len as usize > MAX_POINTS
PollInvalid(n) == n > MAX_POINTS

\* state.points_len != 2
PollNotPair(n) == n # 2

\* The video core writes the points of a new buffer.
VcWritePoints(pts) ==
    /\ tbuf.gen < MaxPublish
    /\ tbuf.pts # pts
    /\ tbuf' = [tbuf EXCEPT !.pts = pts]
    /\ UNCHANGED <<tguard, tsaved, tpc, tstate, tused, irqvars, bootvars>>

\* The video core publishes the buffer by writing its points_len.
VcPublish(n) ==
    /\ tbuf.gen < MaxPublish
    /\ tbuf' = [tbuf EXCEPT !.len = n, !.gen = @ + 1]
    /\ UNCHANGED <<tguard, tsaved, tpc, tstate, tused, irqvars, bootvars>>

\* The dispatcher of a core invokes poll: fence(Ordering::Acquire).
PollCall(c) ==
    /\ tpc[c] = "idle"
    /\ tpc' = [tpc EXCEPT ![c] = "poll_lock"]
    /\ UNCHANGED <<tbuf, tguard, tsaved, tstate, tused, irqvars, bootvars>>

\* lock() of crate::sync::Lock returns once no guard exists.
CanLock == tguard = {}

\* let mut hw_state = TOUCH.state.lock();
PollLock(c) ==
    /\ tpc[c] = "poll_lock"
    /\ CanLock
    /\ tguard' = {c}
    /\ tpc' = [tpc EXCEPT ![c] = "poll_copy"]
    /\ UNCHANGED <<tbuf, tsaved, tstate, tused, irqvars, bootvars>>

\* let state = **hw_state;
PollCopy(c) ==
    /\ tpc[c] = "poll_copy"
    /\ tstate' = [tstate EXCEPT ![c] = tbuf]
    /\ tpc' = [tpc EXCEPT ![c] = "poll_check"]
    /\ UNCHANGED <<tbuf, tguard, tsaved, tused, irqvars, bootvars>>

\* if state.points_len as usize > MAX_POINTS { return; }
PollCheck(c) ==
    /\ tpc[c] = "poll_check"
    /\ IF PollInvalid(tstate[c].len)
       THEN /\ tguard' = tguard \ {c}
            /\ tpc' = [tpc EXCEPT ![c] = "poll_ret"]
       ELSE /\ tguard' = tguard
            /\ tpc' = [tpc EXCEPT ![c] = "poll_reset"]
    /\ UNCHANGED <<tbuf, tsaved, tstate, tused, irqvars, bootvars>>

\* The buffer left as it was read.
PollResetKeeping(c) ==
    /\ tpc[c] = "poll_reset"
    /\ tbuf' = tbuf
    /\ tused' = Append(tused, [gen |-> tstate[c].gen, len |-> tstate[c].len, core |-> c])
    /\ tpc' = [tpc EXCEPT ![c] = "poll_drop"]
    /\ UNCHANGED <<tguard, tsaved, tstate, irqvars, bootvars>>

\* hw_state.points_len = INVALID_POINTS; fence(Ordering::Release);
PollReset(c) ==
    /\ tpc[c] = "poll_reset"
    /\ tbuf' = [tbuf EXCEPT !.len = INVALID_POINTS]
    /\ tused' = Append(tused, [gen |-> tstate[c].gen, len |-> tstate[c].len, core |-> c])
    /\ tpc' = [tpc EXCEPT ![c] = "poll_drop"]
    /\ UNCHANGED <<tguard, tsaved, tstate, irqvars, bootvars>>

\* drop(hw_state);
PollDrop(c) ==
    /\ tpc[c] = "poll_drop"
    /\ tguard' = tguard \ {c}
    /\ tpc' = [tpc EXCEPT ![c] = "poll_save"]
    /\ UNCHANGED <<tbuf, tsaved, tstate, tused, irqvars, bootvars>>

\* *TOUCH.saved.wlock() = None, or Some(new) for two points.
PollSave(c) ==
    /\ tpc[c] = "poll_save"
    /\ tsaved' = IF PollNotPair(tstate[c].len) THEN "none" ELSE Mapped(tstate[c].pts)
    /\ tpc' = [tpc EXCEPT ![c] = "poll_ret"]
    /\ UNCHANGED <<tbuf, tguard, tstate, tused, irqvars, bootvars>>

\* poll returns to the dispatcher and its copy is dropped.
PollReturn(c) ==
    /\ tpc[c] = "poll_ret"
    /\ tpc' = [tpc EXCEPT ![c] = "idle"]
    /\ tstate' = [tstate EXCEPT ![c] = NoState]
    /\ UNCHANGED <<tbuf, tguard, tsaved, tused, irqvars, bootvars>>

\* TOUCH once constructed, over whatever points the memory held.
InitTouch ==
    /\ IrqInit
    /\ BootReady
    /\ \E pts \in PointPairs : TouchInit(pts)

NextTouch ==
    \/ \E pts \in PointPairs : VcWritePoints(pts)
    \/ \E n \in PublishedLens : VcPublish(n)
    \/ \E c \in Cores :
        \/ PollCall(c)
        \/ PollLock(c)
        \/ PollCopy(c)
        \/ PollCheck(c)
        \/ PollReset(c)
        \/ PollDrop(c)
        \/ PollSave(c)
        \/ PollReturn(c)

SpecTouch == InitTouch /\ [][NextTouch]_vars

(* ------------------------------------------------------------------ *)
(* C20                                                                 *)
(* ------------------------------------------------------------------ *)

\* The saved state expected for the points of the inputs: the centre maps
\* to (0, 0) and the corner (1023, 0) to (1246/480, -480/480).
C20_Centre == [x |-> [num |-> 0, den |-> 480], y |-> [num |-> 0, den |-> 480],
               z |-> [num |-> 0, den |-> 480]]
C20_Corner == [x |-> [num |-> 1246, den |-> 480], y |-> [num |-> -480, den |-> 480],
               z |-> [num |-> 0, den |-> 480]]
C20_Saved(pts) ==
    IF pts = <<Centre, Corner>> THEN <<C20_Centre, C20_Corner>>
    ELSE <<C20_Corner, C20_Centre>>

\* The cores that take a step of poll.
Polling == {c \in Cores : tpc'[c] # tpc[c]}

C20_State ==
    /\ Cardinality(tguard) <= 1
    /\ \A i, j \in 1..Len(tused) : tused[i].gen = tused[j].gen => i = j
    /\ \A i \in 1..Len(tused) : tused[i].gen >= 1 /\ tused[i].len <= 10
    /\ \A c \in Cores :
        /\ tpc[c] \in {"poll_reset", "poll_drop"} => tguard = {c} /\ tstate[c].len <= 10
        /\ tpc[c] = "poll_save" => c \notin tguard /\ tstate[c].len <= 10

C20_Step ==
    \A c \in Polling :
        /\ tpc[c] \in {"idle", "poll_lock", "poll_copy", "poll_check", "poll_ret"} =>
            /\ tbuf' = tbuf
            /\ tsaved' = tsaved
            /\ tused' = tused
        /\ (tpc[c] = "poll_check" /\ tstate[c].len > 10) => tpc'[c] = "poll_ret"
        /\ (tpc[c] = "poll_check" /\ tstate[c].len <= 10) => tpc'[c] = "poll_reset"
        /\ tpc[c] = "poll_reset" =>
            /\ tbuf' = [tbuf EXCEPT !.len = 99]
            /\ tguard' = {c}
            /\ tsaved' = tsaved
        /\ tpc[c] = "poll_drop" => tbuf' = tbuf /\ tsaved' = tsaved
        /\ tpc[c] = "poll_save" =>
            /\ tbuf' = tbuf
            /\ tstate[c].len = 2 => tsaved' = C20_Saved(tstate[c].pts)
            /\ tstate[c].len # 2 => tsaved' = "none"

\* C20: no buffer the video core published is consumed by two polls, and
\* the buffer Touch::new left is consumed by none; a poll that reads a
\* points_len above 10, 99 included, returns with the buffer and the saved
\* state as they were; a poll that reads a points_len of at most 10 writes
\* 99 to points_len while it holds the lock of the buffer, and after it
\* released the lock sets the saved state to the two mapped points if it
\* read 2 and to none otherwise.
C20_ConsumedOnce == []C20_State /\ [][C20_Step]_vars

\* One poll consumed a buffer of two points and saved their mapping, and
\* the poll of the other core read the same buffer afterwards, found 99 and
\* is about to return.
C20_Witness ==
    \E c, d \in Cores :
        /\ tpc[c] = "poll_ret"
        /\ tstate[c].len = 2
        /\ tstate[c].pts = <<Centre, Corner>>
        /\ tsaved = <<C20_Centre, C20_Corner>>
        /\ tpc[d] = "poll_ret"
        /\ tstate[d].len = 99
        /\ tstate[d].gen = tstate[c].gen

====
